---- MODULE Spec2Model ----
(***************************************************************************)
(* stunner: a STUN Binding client (stunner_client/src/main.rs) and a STUN  *)
(* Binding server (stunner_server/src/main.rs) exchanging datagrams over   *)
(* UDP.  The wire codec is the stun_coder crate; its encode and decode are *)
(* modelled after RFC 5389 (header, magic cookie, TLV attributes, XOR      *)
(* masking of the mapped address).                                         *)
(***************************************************************************)
EXTENDS Integers, Sequences, FiniteSets, TLC

(***************************************************************************)
(* Bounds of the model.                                                    *)
(***************************************************************************)
\* transaction identifiers are 1..MaxTid (96 random bits in the program)
MaxTid == 2
\* datagrams that peers other than the client and the servers may send
MaxInject == 1

(***************************************************************************)
(* Option and Result.                                                      *)
(***************************************************************************)
None == [some |-> FALSE]
Some(x) == [some |-> TRUE, val |-> x]
Ok(x) == [ok |-> TRUE, val |-> x]
Err(e) == [ok |-> FALSE, err |-> e]

Min(a, b) == IF a <= b THEN a ELSE b

(***************************************************************************)
(* Socket addresses (IPv4): a 32-bit address and a 16-bit port.            *)
(***************************************************************************)
Ipv4(a, b, c, d) == ((a * 256 + b) * 256 + c) * 256 + d
SocketAddr(ip, port) == [ip |-> ip, port |-> port]

\* the port the server listens on by default
DEFAULT_PORT == 3478

Servers == {"s1"}
SrvAddr(s) == SocketAddr(Ipv4(10, 0, 0, 1), DEFAULT_PORT)
\* the client's local socket, and the address an address translator maps it to
CliLocal == SocketAddr(Ipv4(127, 0, 0, 1), 8080)
NatAddr == SocketAddr(Ipv4(100, 64, 0, 7), 40000)
\* some other peer
PeerAddr == SocketAddr(Ipv4(10, 9, 9, 9), 999)

(***************************************************************************)
(* The codec's wire format (RFC 5389).                                     *)
(***************************************************************************)
MAGIC_COOKIE == 554869826
HEADER_LEN == 20
TLV_HEADER_LEN == 4
ATTR_XOR_MAPPED_ADDRESS == 32
ATTR_SOFTWARE == 32802
ATTR_ERROR_CODE == 9
FAMILY_IPV4 == 1
XOR_MAPPED_VALUE_LEN == 8
ERROR_CODE_FIXED_LEN == 4

Tids == 1 .. MaxTid

RECURSIVE BitXor(_, _)
BitXor(a, b) ==
    IF a = 0 THEN b
    ELSE IF b = 0 THEN a
    ELSE (((a % 2) + (b % 2)) % 2) + 2 * BitXor(a \div 2, b \div 2)

\* the upper 16 bits of the magic cookie mask the port
CookieHigh == MAGIC_COOKIE \div 65536

StrLen(s) ==
    CASE s = "stunner" -> 7
      [] s = "Invalid binding request class" -> 29
      [] OTHER -> 0

Pad4(n) == ((n + 3) \div 4) * 4

Classes == {"Request", "Indication", "SuccessResponse", "ErrorResponse"}

\* message type: the Binding method (0x001) with the two class bits
TypeOf(method, class) ==
    CASE class = "Request" -> 1
      [] class = "Indication" -> 17
      [] class = "SuccessResponse" -> 257
      [] class = "ErrorResponse" -> 273

ClassOfType(t) ==
    CASE t = 1 -> "Request"
      [] t = 17 -> "Indication"
      [] t = 257 -> "SuccessResponse"
      [] t = 273 -> "ErrorResponse"

BindingTypes == {1, 17, 257, 273}

(***************************************************************************)
(* Messages and attributes as the program sees them.                       *)
(***************************************************************************)
XorMappedAddress(socket_addr) ==
    [type |-> "XorMappedAddress", socket_addr |-> socket_addr]
Software(description) ==
    [type |-> "Software", description |-> description]
ErrorCode(class, number, reason) ==
    [type |-> "ErrorCode", class |-> class, number |-> number, reason |-> reason]

\* StunMessage::new: the header carries a newly generated transaction id
StunMessageNew(method, class, fresh) ==
    [message_method |-> method, message_class |-> class,
     transaction_id |-> fresh, attributes |-> <<>>]
set_transaction_id(m, tid) == [m EXCEPT !.transaction_id = tid]
add_attribute(m, a) == [m EXCEPT !.attributes = Append(@, a)]
\* StunMessage::create_request
create_request(fresh) == StunMessageNew("BindingRequest", "Request", fresh)

(***************************************************************************)
(* encode: message to bytes.  Bytes are kept as the decoded fields of the  *)
(* wire image together with the number of bytes they occupy.               *)
(***************************************************************************)
EncodeAttr(a) ==
    CASE a.type = "XorMappedAddress" ->
           [type |-> ATTR_XOR_MAPPED_ADDRESS, len |-> XOR_MAPPED_VALUE_LEN,
            family |-> FAMILY_IPV4,
            xport |-> BitXor(a.socket_addr.port, CookieHigh),
            xaddr |-> BitXor(a.socket_addr.ip, MAGIC_COOKIE)]
      [] a.type = "Software" ->
           [type |-> ATTR_SOFTWARE, len |-> StrLen(a.description),
            text |-> a.description]
      [] a.type = "ErrorCode" ->
           [type |-> ATTR_ERROR_CODE,
            len |-> ERROR_CODE_FIXED_LEN + StrLen(a.reason),
            class |-> a.class % 8, number |-> a.number % 256,
            text |-> a.reason]

TlvLen(tlv) == TLV_HEADER_LEN + Pad4(tlv.len)

RECURSIVE TlvsLen(_)
TlvsLen(tlvs) ==
    IF tlvs = <<>> THEN 0 ELSE TlvLen(Head(tlvs)) + TlvsLen(Tail(tlvs))

EncodeWire(m) ==
    LET tlvs == [i \in 1 .. Len(m.attributes) |-> EncodeAttr(m.attributes[i])]
    IN  [type |-> TypeOf(m.message_method, m.message_class),
         length |-> TlvsLen(tlvs),
         cookie |-> MAGIC_COOKIE,
         tid |-> m.transaction_id,
         tlvs |-> tlvs]

\* a datagram's payload: the wire image and its size in bytes
encode(m) ==
    LET w == EncodeWire(m)
    IN  [wire |-> w, size |-> HEADER_LEN + w.length]

(***************************************************************************)
(* A byte slice handed to decode: the first n bytes are those of a         *)
(* received payload, the remaining cap - n bytes are zero.                 *)
(***************************************************************************)
Slice(payload, n, cap) == [wire |-> payload.wire, n |-> n, cap |-> cap]

\* the slice of exactly the payload's bytes
Exact(payload) == Slice(payload, payload.size, payload.size)

\* a receive into a zeroed buffer of cap bytes; the whole buffer is the slice
RecvInto(payload, cap) == Slice(payload, Min(payload.size, cap), cap)

\* the number of zero bytes an attribute's encoding ends with: the padding of a
\* text, the low bytes of a masked address
ZeroTail(tlv) ==
    IF tlv.type = ATTR_XOR_MAPPED_ADDRESS
    THEN IF tlv.xaddr % 256 # 0 THEN 0
         ELSE IF tlv.xaddr % 65536 # 0 THEN 1
         ELSE IF tlv.xaddr % 16777216 # 0 THEN 2
         ELSE IF tlv.xaddr # 0 THEN 3
         ELSE 4
    ELSE Pad4(tlv.len) - tlv.len

\* the attributes read from a slice whose payload bytes leave room for them and
\* are followed by zeros bytes of value zero: those that lie wholly inside the
\* payload bytes, and one whose missing bytes are zero anyway
RECURSIVE TlvsWithin(_, _, _)
TlvsWithin(tlvs, room, zeros) ==
    IF tlvs = <<>> THEN <<>>
    ELSE LET len == TlvLen(Head(tlvs))
         IN  IF len <= room
             THEN <<Head(tlvs)>> \o TlvsWithin(Tail(tlvs), room - len, zeros)
             ELSE IF len - ZeroTail(Head(tlvs)) <= room /\ len <= room + zeros
             THEN <<Head(tlvs)>>
             ELSE <<>>

\* the header fields as read from the slice (bytes past n read as zero)
SeenType(b) == IF b.n >= 2 THEN b.wire.type ELSE 0
SeenLength(b) == IF b.n >= 4 THEN b.wire.length ELSE 0
SeenCookie(b) == IF b.n >= 8 THEN b.wire.cookie ELSE 0
SeenTid(b) == IF b.n >= HEADER_LEN THEN b.wire.tid ELSE 0
SeenTlvs(b) ==
    IF b.n >= HEADER_LEN
    THEN TlvsWithin(b.wire.tlvs, b.n - HEADER_LEN, b.cap - b.n)
    ELSE <<>>

KnownAttrTypes == {ATTR_XOR_MAPPED_ADDRESS, ATTR_SOFTWARE, ATTR_ERROR_CODE}

DecodeAttr(tlv) ==
    CASE tlv.type = ATTR_XOR_MAPPED_ADDRESS ->
           XorMappedAddress(SocketAddr(BitXor(tlv.xaddr, MAGIC_COOKIE),
                                       BitXor(tlv.xport, CookieHigh)))
      [] tlv.type = ATTR_SOFTWARE -> Software(tlv.text)
      [] tlv.type = ATTR_ERROR_CODE ->
           ErrorCode(tlv.class, tlv.number, tlv.text)

\* decode: bytes to message, or an error
decode(b) ==
    LET tlvs == SeenTlvs(b)
    IN  IF b.cap < HEADER_LEN THEN Err("SmallBuffer")
        ELSE IF SeenType(b) \notin BindingTypes THEN Err("UnknownType")
        ELSE IF SeenCookie(b) # MAGIC_COOKIE THEN Err("MagicCookieMismatch")
        ELSE IF HEADER_LEN + SeenLength(b) > b.cap THEN Err("Truncated")
        ELSE IF TlvsLen(tlvs) # SeenLength(b) THEN Err("BadAttributes")
        ELSE IF \E i \in 1 .. Len(tlvs) : tlvs[i].type \notin KnownAttrTypes
             THEN Err("UnknownAttribute")
        ELSE Ok([message_method |-> "BindingRequest",
                 message_class |-> ClassOfType(SeenType(b)),
                 transaction_id |-> SeenTid(b),
                 attributes |-> [i \in 1 .. Len(tlvs) |-> DecodeAttr(tlvs[i])]])

(***************************************************************************)
(* The server: stunner_server/src/main.rs                                  *)
(***************************************************************************)
\* the size of the buffer serve receives into
SERVER_BUF_LEN == 1024

REJECT_CLASS == 4
REJECT_NUMBER == 0
RejectReason == "Invalid binding request class"

\* parse_message with one of its arms changed
ParseVariant(buf, src_addr, fresh, bug) ==
    LET decoded == decode(buf)
        reject == Some(add_attribute(
                         StunMessageNew("BindingRequest", "ErrorResponse", fresh),
                         ErrorCode(REJECT_CLASS, REJECT_NUMBER, RejectReason)))
    IN  IF ~decoded.ok THEN (IF bug = "answer_garbage" THEN reject ELSE None)
        ELSE LET header == decoded.val
             IN  CASE header.message_class = "Request" ->
                        Some(add_attribute(
                               set_transaction_id(
                                 StunMessageNew("BindingRequest", "SuccessResponse", fresh),
                                 IF bug = "keep_fresh_tid" THEN fresh
                                 ELSE header.transaction_id),
                               XorMappedAddress(src_addr)))
                   [] header.message_class = "Indication" ->
                        IF bug = "answer_indication" THEN reject ELSE None
                   [] header.message_class = "ErrorResponse" ->
                        IF bug = "ignore_error_response" THEN None ELSE reject
                   [] header.message_class = "SuccessResponse" ->
                        IF bug = "reject_copies_tid"
                        THEN Some(set_transaction_id(reject.val, header.transaction_id))
                        ELSE reject

parse_message_keep_fresh_tid(buf, src_addr, fresh) ==
    ParseVariant(buf, src_addr, fresh, "keep_fresh_tid")
parse_message_answer_indication(buf, src_addr, fresh) ==
    ParseVariant(buf, src_addr, fresh, "answer_indication")
parse_message_ignore_error_response(buf, src_addr, fresh) ==
    ParseVariant(buf, src_addr, fresh, "ignore_error_response")
parse_message_answer_garbage(buf, src_addr, fresh) ==
    ParseVariant(buf, src_addr, fresh, "answer_garbage")

parse_message_reject_copies_tid(buf, src_addr, fresh) ==
    ParseVariant(buf, src_addr, fresh, "reject_copies_tid")

\* Parse the stun request and create the appropriate response message.
\* fresh is the transaction id StunMessage::new generates.
parse_message(buf, src_addr, fresh) ==
    LET decoded == decode(buf)
    IN  IF ~decoded.ok THEN None
        ELSE LET header == decoded.val
             IN  CASE header.message_class = "Request" ->
                        Some(add_attribute(
                               set_transaction_id(
                                 StunMessageNew("BindingRequest", "SuccessResponse", fresh),
                                 header.transaction_id),
                               XorMappedAddress(src_addr)))
                   [] header.message_class = "Indication" -> None
                   [] header.message_class \in {"ErrorResponse", "SuccessResponse"} ->
                        Some(add_attribute(
                               StunMessageNew("BindingRequest", "ErrorResponse", fresh),
                               ErrorCode(REJECT_CLASS, REJECT_NUMBER, RejectReason)))

(***************************************************************************)
(* The client: stunner_client/src/main.rs                                  *)
(***************************************************************************)
MAX_STUN_MSG_SIZE == 1280

\* the server the client is told to query
RemoteAddr == SrvAddr("s1")

ContextDecode == "could not decode STUN response"
NoXorMappedMsg == "No XorMappedAddress has been set in response."

\* anyhow errors: an io::Error of the socket, the InvalidData io::Error of
\* line 71, or the codec's error wrapped with a context
IoError(op) == [kind |-> "io", io_kind |-> "Os", what |-> op]
InvalidData(msg) == [kind |-> "io", io_kind |-> "InvalidData", what |-> msg]
WithContext(ctx, e) == [kind |-> "context", io_kind |-> "none", what |-> ctx]

\* the first XorMappedAddress attribute of a message, if any
RECURSIVE FindXorMapped(_)
FindXorMapped(attrs) ==
    IF attrs = <<>> THEN None
    ELSE IF Head(attrs).type = "XorMappedAddress" THEN Some(Head(attrs).socket_addr)
    ELSE FindXorMapped(Tail(attrs))

\* a scan that looks at the first attribute only
InterpretResponseFirstOnly(response_buf) ==
    LET stun_response == decode(response_buf)
    IN  IF ~stun_response.ok
        THEN Err(WithContext(ContextDecode, stun_response.err))
        ELSE LET attrs == stun_response.val.attributes
             IN  IF attrs # <<>> /\ Head(attrs).type = "XorMappedAddress"
                 THEN Ok(Head(attrs).socket_addr)
                 ELSE Err(InvalidData(NoXorMappedMsg))

\* get_mapped_addr from the decode on: response_buf is the whole buffer
InterpretResponse(response_buf) ==
    LET stun_response == decode(response_buf)
    IN  IF ~stun_response.ok
        THEN Err(WithContext(ContextDecode, stun_response.err))
        ELSE LET found == FindXorMapped(stun_response.val.attributes)
             IN  IF found.some THEN Ok(found.val)
                 ELSE Err(InvalidData(NoXorMappedMsg))

\* what main prints for a result of get_mapped_addr
Report(local_addr, response) ==
    IF response.ok
    THEN << <<"Binding test: success">>,
            <<"Local address: ", local_addr>>,
            <<"Mapped address: ", response.val>> >>
    ELSE << <<"Binding test: success">>,
            <<"Local address: ", local_addr>>,
            <<"Error: ", response.err>> >>

(***************************************************************************)
(* State.                                                                  *)
(***************************************************************************)
VARIABLES
    net,         \* datagrams in flight
    injected,    \* datagrams other peers have sent so far
    srv_pc,      \* per server: "bind", "recv", "send", "exited"
    srv_cur,     \* per server: the locals of the loop iteration that is sending
    srv_last,    \* per server: the kind of datagram the last finished iteration
                 \* received, the number of times it called send_to, and
                 \* whether that call failed
    cli_pc,      \* "bind", "build", "connect", "send", "recv", "print", "done", "panicked"
    cli_nat,     \* the address the client's datagrams carry as their source: an
                 \* address translator sits between the client and the server
    cli_req,     \* binding_msg
    cli_sends,   \* datagrams the client has sent
    cli_recvs,   \* calls of recv that have returned
    cli_reply,   \* the datagram recv returned
    cli_result,  \* what get_mapped_addr returned
    cli_out,     \* lines printed on stdout
    cli_stderr,  \* panic messages
    srv_seen     \* the source address a server saw on the client's request

vars == <<net, injected, srv_pc, srv_cur, srv_last, cli_pc, cli_nat, cli_req, cli_sends,
          cli_recvs, cli_reply, cli_result, cli_out, cli_stderr, srv_seen>>

srv_vars == <<srv_pc, srv_cur, srv_last, srv_seen>>
cli_vars == <<cli_pc, cli_nat, cli_req, cli_sends, cli_recvs, cli_reply,
              cli_result, cli_out, cli_stderr>>

\* a datagram; from records who sent it and re the kind of datagram it answers
Datagram(src, dst, payload, from, re) ==
    [src |-> src, dst |-> dst, payload |-> payload, from |-> from, re |-> re]

Init ==
    /\ net = {}
    /\ injected = 0
    /\ srv_pc = [s \in Servers |-> "recv"]
    /\ srv_cur = [s \in Servers |-> None]
    /\ srv_last = [s \in Servers |-> [kind |-> "none", sends |-> 0, failed |-> FALSE]]
    /\ cli_pc = "bind"
    /\ cli_nat = NatAddr
    /\ cli_req = None
    /\ cli_sends = 0
    /\ cli_recvs = 0
    /\ cli_reply = None
    /\ cli_result = None
    /\ cli_out = <<>>
    /\ cli_stderr = <<>>
    /\ srv_seen = None

(***************************************************************************)
(* The network and the other peers.                                        *)
(***************************************************************************)
\* bytes that are no STUN message
Junk4 == [wire |-> [type |-> 57005, length |-> 48879, cookie |-> 0, tid |-> 0,
                    tlvs |-> <<>>],
          size |-> 4]
\* a STUN header of a method other than Binding (Allocate)
OtherMethod ==
    [wire |-> [type |-> 3, length |-> 0, cookie |-> MAGIC_COOKIE, tid |-> 1,
               tlvs |-> <<>>],
     size |-> HEADER_LEN]
\* a Binding Request whose Software attribute is 1100 bytes long: 1124 bytes
LongRequest ==
    [wire |-> [type |-> 1, length |-> TLV_HEADER_LEN + 1100, cookie |-> MAGIC_COOKIE,
               tid |-> 1,
               tlvs |-> << [type |-> ATTR_SOFTWARE, len |-> 1100,
                            text |-> "a description of 1100 bytes"] >>],
     size |-> HEADER_LEN + TLV_HEADER_LEN + 1100]
\* a datagram that lacks its last byte
CutByOne(payload) == [payload EXCEPT !.size = payload.size - 1]
\* a datagram cut short inside its attributes
CutShort(payload) == [payload EXCEPT !.size = payload.size - TLV_HEADER_LEN]

PeerMsg(c, t, as) ==
    [message_method |-> "BindingRequest", message_class |-> c,
     transaction_id |-> t, attributes |-> as]

PeerAttrs == <<Software("stunner"), XorMappedAddress(PeerAddr)>>

\* what other peers send to a server under their own address ...
Plain ==
    {encode(PeerMsg("Request", t, <<>>)) : t \in Tids}
      \cup {encode(PeerMsg(c, 1, <<>>)) :
              c \in {"Indication", "SuccessResponse", "ErrorResponse"}}
      \cup {Junk4, OtherMethod, CutShort(encode(PeerMsg("Request", 1, PeerAttrs))),
            LongRequest,
            CutByOne(encode(PeerMsg("Request", 1, <<Software("stunner")>>)))}
\* ... under the address of the client ...
AsClient ==
    {encode(PeerMsg(c, 1, <<>>)) : c \in {"Request", "SuccessResponse"}}
\* ... and under the address of a server
AsServer == {encode(PeerMsg("SuccessResponse", 1, <<>>))}

\* what other peers send to the client
ClientBound ==
    {encode(PeerMsg("SuccessResponse", t, PeerAttrs)) : t \in Tids}
      \cup {encode(PeerMsg("ErrorResponse", 1, PeerAttrs)),
            encode(PeerMsg("SuccessResponse", 1, <<>>)),
            Junk4,
            CutShort(encode(PeerMsg("SuccessResponse", 1, PeerAttrs)))}

\* another peer sends a datagram; the source address it writes is its choice
PeerSend(d) ==
    /\ injected < MaxInject
    /\ injected' = injected + 1
    /\ net' = net \cup {d}
    /\ UNCHANGED <<srv_vars, cli_vars>>

\* the network loses a datagram sent by the client or a server to the other (a
\* lost datagram of another peer is one that peer never sent, and one lost on its
\* way to another peer is one that peer ignores)
Lose(d) ==
    /\ d \in net
    /\ d.from # "peer"
    /\ d.dst \in {cli_nat} \cup {SrvAddr(s) : s \in Servers}
    /\ net' = net \ {d}
    /\ UNCHANGED <<injected, srv_vars, cli_vars>>

(***************************************************************************)
(* serve                                                                   *)
(***************************************************************************)
\* the kind of message a slice holds: its class, or "undecodable"
KindOf(buf) ==
    LET decoded == decode(buf)
    IN  IF decoded.ok THEN decoded.val.message_class ELSE "undecodable"

\* the end of a loop iteration: its locals are dropped
Finished(s, kind, sends) ==
    /\ srv_cur' = [srv_cur EXCEPT ![s] = None]
    /\ srv_last' = [srv_last EXCEPT ![s] =
                      [kind |-> kind, sends |-> sends, failed |-> FALSE]]
    /\ srv_pc' = [srv_pc EXCEPT ![s] = "recv"]

\* the end of a loop iteration whose send_to returned an error
FinishedUnsent(s, kind, sends) ==
    /\ srv_cur' = [srv_cur EXCEPT ![s] = None]
    /\ srv_last' = [srv_last EXCEPT ![s] =
                      [kind |-> kind, sends |-> sends, failed |-> TRUE]]
    /\ srv_pc' = [srv_pc EXCEPT ![s] = "recv"]

\* a server whose buffer outlives the loop iteration: the bytes past the end of
\* a datagram cut short are those the request before it left in the buffer
ServerRecvStaleBuffer(s, d, fresh) ==
    /\ srv_pc[s] = "recv"
    /\ d \in net
    /\ d.dst = SrvAddr(s)
    /\ LET zeroed == RecvInto(d.payload, SERVER_BUF_LEN)
           stale == Slice(d.payload, HEADER_LEN + d.payload.wire.length, SERVER_BUF_LEN)
           buf == IF srv_last[s].kind = "Request" /\ decode(stale).ok THEN stale
                  ELSE zeroed
           src_addr == d.src
           message == parse_message(buf, src_addr, fresh)
       IN  IF message.some
           THEN /\ srv_cur' = [srv_cur EXCEPT ![s] =
                                 [some |-> TRUE, buf |-> buf, src_addr |-> src_addr,
                                  message |-> message.val, sends |-> 0]]
                /\ srv_pc' = [srv_pc EXCEPT ![s] = "send"]
                /\ UNCHANGED srv_last
           ELSE Finished(s, KindOf(buf), 0)
    /\ srv_seen' = IF d.from = "client" THEN Some(d.src) ELSE srv_seen
    /\ net' = net \ {d}
    /\ UNCHANGED <<injected, cli_vars>>

\* lines 33-36: a zeroed buffer, recv_from, parse_message on the whole buffer
ServerRecv(s, d, fresh) ==
    /\ srv_pc[s] = "recv"
    /\ d \in net
    /\ d.dst = SrvAddr(s)
    /\ LET buf == RecvInto(d.payload, SERVER_BUF_LEN)
           src_addr == d.src
           message == parse_message(buf, src_addr, fresh)
       IN  IF message.some
           THEN /\ srv_cur' = [srv_cur EXCEPT ![s] =
                                 [some |-> TRUE, buf |-> buf, src_addr |-> src_addr,
                                  message |-> message.val, sends |-> 0]]
                /\ srv_pc' = [srv_pc EXCEPT ![s] = "send"]
                /\ UNCHANGED srv_last
           ELSE Finished(s, KindOf(buf), 0)
    /\ srv_seen' = IF d.from = "client" THEN Some(d.src) ELSE srv_seen
    /\ net' = net \ {d}
    /\ UNCHANGED <<injected, cli_vars>>

\* line 34: recv_from(..).await? returns the error to main, which panics
ServerRecvFail(s) ==
    /\ srv_pc[s] = "recv"
    /\ srv_pc' = [srv_pc EXCEPT ![s] = "exited"]
    /\ UNCHANGED <<net, injected, srv_cur, srv_last, srv_seen, cli_vars>>

\* a server that keeps the address of the client it saw first and sends every
\* reply there
ServerSendToFirstSeen(s) ==
    /\ srv_pc[s] = "send"
    /\ LET cur == srv_cur[s]
           to == IF srv_seen.some THEN srv_seen.val ELSE cur.src_addr
       IN  /\ net' = net \cup {Datagram(SrvAddr(s), to, encode(cur.message),
                                        s, KindOf(cur.buf))}
           /\ Finished(s, KindOf(cur.buf), cur.sends + 1)
    /\ UNCHANGED <<injected, srv_seen, cli_vars>>

\* line 38: send_to(&message.encode(None).unwrap(), src_addr) succeeds
ServerSend(s) ==
    /\ srv_pc[s] = "send"
    /\ LET cur == srv_cur[s]
       IN  /\ net' = net \cup {Datagram(SrvAddr(s), cur.src_addr, encode(cur.message),
                                        s, KindOf(cur.buf))}
           /\ Finished(s, KindOf(cur.buf), cur.sends + 1)
    /\ UNCHANGED <<injected, srv_seen, cli_vars>>

\* a server that tries again after a failed send
ServerSendFailRetry(s) ==
    /\ srv_pc[s] = "send"
    /\ srv_cur[s].sends < 2
    /\ srv_cur' = [srv_cur EXCEPT ![s].sends = @ + 1]
    /\ UNCHANGED <<net, injected, srv_pc, srv_last, srv_seen, cli_vars>>

\* a server that returns the error of send_to to main, as it does for recv_from
ServerSendFailExits(s) ==
    /\ srv_pc[s] = "send"
    /\ srv_pc' = [srv_pc EXCEPT ![s] = "exited"]
    /\ srv_cur' = [srv_cur EXCEPT ![s] = None]
    /\ UNCHANGED <<net, injected, srv_last, srv_seen, cli_vars>>

\* lines 38-45: send_to fails; the error is logged and the loop goes on
ServerSendFail(s) ==
    /\ srv_pc[s] = "send"
    /\ FinishedUnsent(s, KindOf(srv_cur[s].buf), srv_cur[s].sends + 1)
    /\ UNCHANGED <<net, injected, srv_seen, cli_vars>>

(***************************************************************************)
(* main and get_mapped_addr of the client                                  *)
(***************************************************************************)
BindPanic == "could not bind local address"

\* lines 82-87
ClientBind ==
    /\ cli_pc = "bind"
    /\ cli_pc' = "build"
    /\ UNCHANGED <<net, injected, srv_vars, cli_nat, cli_req, cli_sends,
                   cli_recvs, cli_reply, cli_result, cli_out, cli_stderr>>

ClientBindFail ==
    /\ cli_pc = "bind"
    /\ cli_pc' = "panicked"
    /\ cli_stderr' = Append(cli_stderr, BindPanic)
    /\ UNCHANGED <<net, injected, srv_vars, cli_nat, cli_req, cli_sends,
                   cli_recvs, cli_reply, cli_result, cli_out>>

\* lines 38-47: the request with its Software attribute
ClientBuild(fresh) ==
    /\ cli_pc = "build"
    /\ cli_req' = Some(add_attribute(create_request(fresh), Software("stunner")))
    /\ cli_pc' = "connect"
    /\ UNCHANGED <<net, injected, srv_vars, cli_nat, cli_sends, cli_recvs,
                   cli_reply, cli_result, cli_out, cli_stderr>>

\* a step of get_mapped_addr returns early with an io::Error
ClientFail(at, op) ==
    /\ cli_pc = at
    /\ cli_result' = Some(Err(IoError(op)))
    /\ cli_pc' = "print"

\* line 50
ClientConnect ==
    /\ cli_pc = "connect"
    /\ cli_pc' = "send"
    /\ UNCHANGED <<net, injected, srv_vars, cli_nat, cli_req, cli_sends,
                   cli_recvs, cli_reply, cli_result, cli_out, cli_stderr>>

ClientConnectFail ==
    /\ ClientFail("connect", "connect")
    /\ UNCHANGED <<net, injected, srv_vars, cli_nat, cli_req, cli_sends,
                   cli_recvs, cli_reply, cli_out, cli_stderr>>

\* line 53
ClientSend ==
    /\ cli_pc = "send"
    /\ net' = net \cup {Datagram(cli_nat, RemoteAddr, encode(cli_req.val),
                                 "client", "none")}
    /\ cli_sends' = cli_sends + 1
    /\ cli_pc' = "recv"
    /\ UNCHANGED <<injected, srv_vars, cli_nat, cli_req, cli_recvs, cli_reply,
                   cli_result, cli_out, cli_stderr>>

\* a client that notes the error of send and waits for a reply all the same
ClientSendFailThenRecv ==
    /\ cli_pc = "send"
    /\ cli_result' = Some(Err(IoError("send")))
    /\ cli_pc' = "recv"
    /\ UNCHANGED <<net, injected, srv_vars, cli_nat, cli_req, cli_sends,
                   cli_recvs, cli_reply, cli_out, cli_stderr>>

ClientSendFail ==
    /\ ClientFail("send", "send")
    /\ UNCHANGED <<net, injected, srv_vars, cli_nat, cli_req, cli_sends,
                   cli_recvs, cli_reply, cli_out, cli_stderr>>

\* lines 56-75: recv on the connected socket, then decode and the scan
ClientRecv(d) ==
    /\ cli_pc = "recv"
    /\ d \in net
    /\ d.dst = cli_nat
    /\ d.src = RemoteAddr
    /\ LET response_buf == RecvInto(d.payload, MAX_STUN_MSG_SIZE)
       IN  cli_result' = Some(InterpretResponse(response_buf))
    /\ cli_reply' = Some(d)
    /\ cli_recvs' = cli_recvs + 1
    /\ cli_pc' = "print"
    /\ net' = net \ {d}
    /\ UNCHANGED <<injected, srv_vars, cli_nat, cli_req, cli_sends, cli_out,
                   cli_stderr>>

\* a client that sends its request again when recv fails
ClientRecvFailRetry ==
    /\ cli_pc = "recv"
    /\ cli_pc' = "send"
    /\ UNCHANGED <<net, injected, srv_vars, cli_nat, cli_req, cli_sends,
                   cli_recvs, cli_reply, cli_result, cli_out, cli_stderr>>

\* line 57: recv returns an error
ClientRecvFail ==
    /\ ClientFail("recv", "recv")
    /\ cli_recvs' = cli_recvs + 1
    /\ UNCHANGED <<net, injected, srv_vars, cli_nat, cli_req, cli_sends,
                   cli_reply, cli_out, cli_stderr>>

\* lines 90-101; the request and the reply of the exchange are gone by now
ClientPrint ==
    /\ cli_pc = "print"
    /\ cli_out' = Report(CliLocal, cli_result.val)
    /\ cli_pc' = "done"
    /\ cli_req' = None
    /\ cli_reply' = None
    /\ UNCHANGED <<net, injected, srv_vars, cli_nat, cli_sends, cli_recvs,
                   cli_result, cli_stderr>>

(***************************************************************************)
(* The system.                                                             *)
(***************************************************************************)
\* a peer may write its own address, the client's or a server's as the source
PeerDatagrams ==
    {Datagram(PeerAddr, SrvAddr(s), p, "peer", "none") : s \in Servers, p \in Plain}
      \cup {Datagram(cli_nat, SrvAddr(s), p, "peer", "none") :
              s \in Servers, p \in AsClient}
      \cup {Datagram(SrvAddr(x), SrvAddr(s), p, "peer", "none") :
              x \in Servers, s \in Servers, p \in AsServer}
      \cup {Datagram(RemoteAddr, cli_nat, p, "peer", "none") : p \in ClientBound}

Next ==
    \/ \E d \in PeerDatagrams : PeerSend(d)
    \/ \E d \in net : Lose(d)
    \/ \E s \in Servers, d \in net, fresh \in Tids : ServerRecv(s, d, fresh)
    \/ \E s \in Servers : ServerRecvFail(s)
    \/ \E s \in Servers : ServerSend(s)
    \/ \E s \in Servers : ServerSendFail(s)
    \/ ClientBind
    \/ ClientBindFail
    \/ \E fresh \in Tids : ClientBuild(fresh)
    \/ ClientConnect
    \/ ClientConnectFail
    \/ ClientSend
    \/ ClientSendFail
    \/ \E d \in net : ClientRecv(d)
    \/ ClientRecvFail
    \/ ClientPrint

Spec == Init /\ [][Next]_vars

\* serve does not stand still: a send_to it has called returns, with or without
\* an error, and recv_from returns a datagram that waits on the socket
FairSpec ==
    /\ Spec
    /\ \A s \in Servers :
          /\ WF_vars(ServerSend(s) \/ ServerSendFail(s))
          /\ WF_vars(\E d \in net, fresh \in Tids : ServerRecv(s, d, fresh))

(***************************************************************************)
(* Properties of the server's handler and loop.                            *)
(***************************************************************************)
\* the datagrams on their way to a server
ToServers == {d \in net : \E s \in Servers : d.dst = SrvAddr(s)}

\* the slices parse_message is called with for a datagram: the whole receive
\* buffer (serve) and exactly the datagram's bytes (the tests)
HandlerSlices(d) == {RecvInto(d.payload, SERVER_BUF_LEN), Exact(d.payload)}

IsClass(buf, class) == KindOf(buf) = class

SuccessFor(tid, addr) ==
    [message_method |-> "BindingRequest", message_class |-> "SuccessResponse",
     transaction_id |-> tid,
     attributes |-> << [type |-> "XorMappedAddress", socket_addr |-> addr] >>]

RejectAttributes ==
    << [type |-> "ErrorCode", class |-> 4, number |-> 0,
        reason |-> "Invalid binding request class"] >>

IsReject(m) ==
    /\ m.message_method = "BindingRequest"
    /\ m.message_class = "ErrorResponse"
    /\ m.attributes = RejectAttributes

\* C1: a datagram that decodes as a Binding Request is answered, whatever its
\* source address, with a Binding SuccessResponse that carries the request's
\* transaction id and exactly one attribute, the XorMappedAddress of the source
\* address; this is what the loop is about to send.
C1_RequestGetsSuccess ==
    /\ \A d \in ToServers : \A buf \in HandlerSlices(d) :
          LET inbound == decode(buf)
          IN  (inbound.ok /\ inbound.val.message_class = "Request") =>
                 \A fresh \in Tids :
                    parse_message(buf, d.src, fresh)
                      = Some(SuccessFor(inbound.val.transaction_id, d.src))
    /\ \A s \in Servers :
          (srv_pc[s] = "send" /\ IsClass(srv_cur[s].buf, "Request")) =>
             srv_cur[s].message
               = SuccessFor(decode(srv_cur[s].buf).val.transaction_id,
                            srv_cur[s].src_addr)

\* a server is about to answer a request whose transaction id is 2 from the
\* client's mapped address or another peer's
C1_Witness ==
    \E s \in Servers :
       /\ srv_pc[s] = "send"
       /\ IsClass(srv_cur[s].buf, "Request")
       /\ srv_cur[s].message.message_class = "SuccessResponse"
       /\ srv_cur[s].message.transaction_id = 2
       /\ Len(srv_cur[s].message.attributes) = 1

\* C2: a datagram that decodes as a Binding Indication makes the handler return
\* nothing, whatever its source address, and the loop calls send_to zero times
\* for it: no datagram of a server answers an Indication.
C2_IndicationUnanswered ==
    /\ \A d \in ToServers : \A buf \in HandlerSlices(d) :
          IsClass(buf, "Indication") =>
             \A fresh \in Tids : parse_message(buf, d.src, fresh) = None
    /\ \A s \in Servers :
          /\ srv_last[s].kind = "Indication" => srv_last[s].sends = 0
          /\ srv_pc[s] = "send" => ~IsClass(srv_cur[s].buf, "Indication")
    /\ \A d \in net : d.from \in Servers => d.re # "Indication"

\* a server has finished the iteration of an Indication
C2_Witness ==
    \E s \in Servers : srv_last[s].kind = "Indication" /\ srv_pc[s] = "recv"

\* C3: a datagram that decodes as a Binding SuccessResponse or ErrorResponse is
\* answered with a Binding ErrorResponse whose only attribute is the ErrorCode
\* 4, 0, "Invalid binding request class"; both classes get the same answer.
C3_ResponsesRejected ==
    /\ \A d \in ToServers : \A buf \in HandlerSlices(d) :
          KindOf(buf) \in {"SuccessResponse", "ErrorResponse"} =>
             \A fresh \in Tids :
                LET response == parse_message(buf, d.src, fresh)
                IN  response.some /\ IsReject(response.val)
    /\ \A s \in Servers :
          (srv_pc[s] = "send" /\ KindOf(srv_cur[s].buf) \in {"SuccessResponse",
                                                            "ErrorResponse"}) =>
             IsReject(srv_cur[s].message)
    /\ \A s \in Servers :
          srv_last[s].kind \in {"SuccessResponse", "ErrorResponse"} =>
             srv_last[s].sends = 1

\* a server is about to reject an ErrorResponse
C3_Witness ==
    \E s \in Servers :
       /\ srv_pc[s] = "send"
       /\ KindOf(srv_cur[s].buf) = "ErrorResponse"
       /\ srv_cur[s].message.message_class = "ErrorResponse"

\* a step in which server s finishes the iteration of a datagram of this kind
Finishes(s, kind) ==
    /\ srv_pc[s] \in {"recv", "send"}
    /\ srv_cur'[s] = None
    /\ srv_last'[s].kind = kind
    /\ \/ srv_pc[s] = "send"
       \/ \E d \in net \ net' : d.dst = SrvAddr(s)

C7_LoopNeverEnds == \A s \in Servers : srv_pc[s] # "exited"

\* The errors of decoding, dispatch and transmission do stay local: the loop
\* ends only in recv_from, never while a datagram is handled or answered.
C7_OtherErrorsLocal ==
    [][\A s \in Servers :
         (srv_pc[s] # "exited" /\ srv_pc'[s] = "exited") =>
            (srv_pc[s] = "recv" /\ net' = net /\ srv_last' = srv_last)]_vars

(***************************************************************************)
(* Properties of the client.                                               *)
(***************************************************************************)
Returned == cli_result.some
ReturnedOk == cli_result.some /\ cli_result.val.ok

\* C6: the address the client's discovery returns is the source address a
\* server saw on the client's own request.
C6_MappedIsObserved == ReturnedOk => srv_seen = Some(cli_result.val.val)

\* The server's side of it: a SuccessResponse of a server carries the address
\* it is sent to, which is the source address of the datagram it answers.
C6_ServerEchoesSource ==
    \A d \in net :
       (d.from \in Servers /\ d.re = "Request") =>
          decode(Exact(d.payload)).val.attributes
            = << [type |-> "XorMappedAddress", socket_addr |-> d.dst] >>

DecodeFailed ==
    [ok |-> FALSE,
     err |-> [kind |-> "context", io_kind |-> "none",
              what |-> "could not decode STUN response"]]
NoMappedAddress ==
    [ok |-> FALSE,
     err |-> [kind |-> "io", io_kind |-> "InvalidData",
              what |-> "No XorMappedAddress has been set in response."]]
TransportFailed(op) ==
    [ok |-> FALSE, err |-> [kind |-> "io", io_kind |-> "Os", what |-> op]]

XorIndexes(m) ==
    {i \in 1 .. Len(m.attributes) : m.attributes[i].type = "XorMappedAddress"}

\* C8: get_mapped_addr returns Ok(address) when the reply decodes and holds an
\* XorMappedAddress (the address of the first one), the decode error when the
\* reply does not decode, the "no XorMappedAddress" error when it decodes and
\* holds none, and the socket's error when connect, send or recv fails; it
\* returns nothing else.
C8_FourOutcomes ==
    /\ Returned =>
          \/ cli_result.val.ok
          \/ cli_result.val \in {DecodeFailed, NoMappedAddress}
                                  \cup {TransportFailed(op) : op \in {"connect", "send", "recv"}}
    /\ (cli_pc = "print" /\ cli_reply.some) =>
          LET m == decode(RecvInto(cli_reply.val.payload, MAX_STUN_MSG_SIZE))
          IN  /\ ~m.ok => cli_result.val = DecodeFailed
              /\ (m.ok /\ XorIndexes(m.val) = {}) => cli_result.val = NoMappedAddress
              /\ (m.ok /\ XorIndexes(m.val) # {}) =>
                    /\ cli_result.val.ok
                    /\ \E i \in XorIndexes(m.val) :
                          /\ cli_result.val.val = m.val.attributes[i].socket_addr
                          /\ \A j \in XorIndexes(m.val) : i <= j
    /\ (cli_pc = "print" /\ ~cli_reply.some) =>
          \/ cli_result.val = TransportFailed("connect") /\ cli_sends = 0
          \/ cli_result.val = TransportFailed("send") /\ cli_sends = 0
          \/ cli_result.val = TransportFailed("recv") /\ cli_sends = 1

\* the client has returned Ok for a reply whose first attribute is Software
C8_Witness ==
    /\ cli_pc = "print"
    /\ cli_reply.some
    /\ cli_result.val.ok
    /\ decode(Exact(cli_reply.val.payload)).val.attributes[1].type = "Software"

\* C9: one discovery sends one datagram and calls recv once; there is no retry
\* and no timeout: the client leaves recv only with a datagram delivered to it
\* (or an error of the socket), and then get_mapped_addr returns; until then it
\* stays blocked, whatever happened to its request.
C9_OneSendOneRecvNoTimeout ==
    /\ [](/\ cli_sends <= 1
          /\ cli_recvs <= 1
          /\ cli_pc = "recv" => (cli_sends = 1 /\ cli_recvs = 0 /\ ~Returned)
          /\ cli_recvs = 1 => (cli_sends = 1 /\ Returned))
    /\ [][(cli_pc = "recv" /\ cli_pc' # "recv") =>
            /\ cli_pc' = "print"
            /\ Returned'
            /\ cli_recvs' = 1
            /\ cli_sends' = 1
            /\ \/ cli_result'.val = TransportFailed("recv") /\ net' = net
               \/ \E d \in net \ net' :
                     d.dst = cli_nat /\ d.src = RemoteAddr /\ cli_reply' = Some(d)]_vars
    /\ [][(cli_pc = "recv" /\ \E d \in net \ net' : cli_reply' = Some(d)) =>
            (cli_pc' = "print" /\ Returned')]_vars

\* the client is blocked in recv: the server took its request for garbage or
\* the reply was lost, and nothing is on its way to the client
C9_Witness ==
    /\ cli_pc = "recv"
    /\ srv_seen.some
    /\ \A s \in Servers : srv_pc[s] = "recv"
    /\ net = {}

ToClient == {d \in net : d.dst = cli_nat /\ d.src = RemoteAddr}

\* a receive into a buffer of cap bytes returns all the bytes of the payload
ReceivedInFull(payload, cap) == RecvInto(payload, cap).n = payload.size

\* C11: the server's receive of a request and the client's receive of a reply
\* take a datagram in full if and only if it is at most 1280 bytes long.
C11_BothReceiveInto1280 ==
    /\ \A d \in ToServers :
          ReceivedInFull(d.payload, SERVER_BUF_LEN) <=> d.payload.size <= 1280
    /\ \A d \in ToClient :
          ReceivedInFull(d.payload, MAX_STUN_MSG_SIZE) <=> d.payload.size <= 1280

\* What the two roles do: the client's buffer holds 1280 bytes, the server's
\* 1024, and a request between the two sizes is one the server does not answer.
C11_ServerReceivesInto1024 ==
    /\ \A d \in ToServers :
          /\ ReceivedInFull(d.payload, SERVER_BUF_LEN) <=> d.payload.size <= 1024
          /\ (d.payload.size > 1024 /\ KindOf(Exact(d.payload)) = "Request") =>
                \A fresh \in Tids :
                   parse_message(RecvInto(d.payload, SERVER_BUF_LEN), d.src, fresh) = None
    /\ \A d \in ToClient :
          ReceivedInFull(d.payload, MAX_STUN_MSG_SIZE) <=> d.payload.size <= 1280

(***************************************************************************)
(* Properties of the server across datagrams.                              *)
(***************************************************************************)
\* a step in which server s receives datagram d (a datagram of a peer is never
\* lost, and the receive of any other datagram changes the server's state)
Receives(s, d) ==
    /\ srv_pc[s] = "recv"
    /\ d \in net
    /\ d \notin net'
    /\ d.dst = SrvAddr(s)
    /\ d.from = "peer" \/ srv_vars' # srv_vars

\* the reply to datagram d of a server that knows nothing but d: its class and
\* attributes, or none
StatelessReply(d) ==
    LET kind == KindOf(RecvInto(d.payload, SERVER_BUF_LEN))
    IN  CASE kind = "Request" ->
               Some([class |-> "SuccessResponse",
                     attributes |-> << [type |-> "XorMappedAddress",
                                        socket_addr |-> d.src] >>])
          [] kind \in {"SuccessResponse", "ErrorResponse"} ->
               Some([class |-> "ErrorResponse", attributes |-> RejectAttributes])
          [] OTHER -> None

\* a step in which server s does with datagram d what a server that knows
\* nothing but d does
DispatchedAlone(s, d) ==
    LET expect == StatelessReply(d)
    IN  IF expect.some
        THEN /\ srv_pc'[s] = "send"
             /\ srv_cur'[s].message.message_class = expect.val.class
             /\ srv_cur'[s].message.attributes = expect.val.attributes
             /\ srv_cur'[s].src_addr = d.src
             /\ srv_cur'[s].buf = RecvInto(d.payload, SERVER_BUF_LEN)
        ELSE /\ srv_pc'[s] = "recv"
             /\ srv_cur'[s] = None
             /\ net' = net \ {d}

\* C12: whatever the server has received before, it decides on datagram d from
\* d's bytes and source address alone: it replies when and only when a server
\* that knows only d does, with the same class and attributes and to d's
\* source; the bytes it decodes are d's followed by zeros, none of an earlier
\* datagram; and nothing of an iteration is kept once it has ended.
C12_ServerStateless ==
    /\ [](\A s \in Servers : srv_pc[s] \in {"recv", "exited"} => srv_cur[s] = None)
    /\ [][\A s \in Servers : \A d \in net :
            Receives(s, d) => DispatchedAlone(s, d)]_vars

\* a server has handled the client's request and then a datagram it could not
\* decode
C12_Witness ==
    /\ srv_seen.some
    /\ injected = 1
    /\ \E s \in Servers : srv_pc[s] = "recv" /\ srv_last[s].kind = "undecodable"
    /\ ToServers = {}

(***************************************************************************)
(* Properties of what the two roles hand to decode.                        *)
(***************************************************************************)
\* the bytes recv returned, and nothing else, of a buffer handed to decode
ReceivedBytes(buf) == Slice(buf, buf.n, buf.n)

\* C13: in both roles the bytes handed to decode are exactly the bytes the
\* receive returned: the server's parse_message gets a slice as long as the
\* datagram, and the client's result is that of decoding the reply's bytes.
C13_DecodeGetsTheDatagram ==
    /\ \A s \in Servers :
          srv_pc[s] = "send" => srv_cur[s].buf = ReceivedBytes(srv_cur[s].buf)
    /\ (cli_pc = "print" /\ cli_reply.some) =>
          cli_result.val
            = InterpretResponse(
                ReceivedBytes(RecvInto(cli_reply.val.payload, MAX_STUN_MSG_SIZE)))

\* What the roles hand to decode is the whole buffer, 1024 and 1280 bytes.
C13_DecodeGetsTheBuffer ==
    /\ \A s \in Servers : srv_pc[s] = "send" => srv_cur[s].buf.cap = SERVER_BUF_LEN
    /\ \A d \in ToClient : RecvInto(d.payload, MAX_STUN_MSG_SIZE).cap = MAX_STUN_MSG_SIZE

\* a server answers a datagram whose own bytes do not decode: the zeros of the
\* buffer stand in for the byte it lacks
C13_AnswersCutDatagram ==
    \E s \in Servers :
       /\ srv_pc[s] = "send"
       /\ ~decode(ReceivedBytes(srv_cur[s].buf)).ok

\* C14: a server handles one datagram at a time, in order.  While the reply to
\* a datagram is to be sent the server takes no other datagram: the iteration
\* ends, with the reply sent or its send failed, before anything else changes
\* in the server.  Every datagram a server sends is the reply of the iteration
\* it is in, addressed to the source of the datagram that iteration received.
C14_OneAtATimeInOrder ==
    /\ [][\A s \in Servers :
            srv_pc[s] = "send" =>
               \/ srv_pc'[s] = "send" /\ srv_cur'[s] = srv_cur[s]
               \/ /\ srv_pc'[s] = "recv"
                  /\ srv_cur'[s] = None
                  /\ srv_last'[s].sends = 1
                  /\ \/ net' = net
                     \/ net' = net \cup {[src |-> SrvAddr(s),
                                           dst |-> srv_cur[s].src_addr,
                                           payload |-> encode(srv_cur[s].message),
                                           from |-> s,
                                           re |-> KindOf(srv_cur[s].buf)]}]_vars
    /\ [][\A d \in net' \ net :
            d.from \in Servers =>
               /\ srv_pc[d.from] = "send"
               /\ d.dst = srv_cur[d.from].src_addr
               /\ d.payload = encode(srv_cur[d.from].message)]_vars
    /\ [][\A s \in Servers : \A d \in net :
            (Receives(s, d) /\ srv_pc'[s] = "send") =>
               (srv_cur[s] = None /\ srv_cur'[s].src_addr = d.src)]_vars

\* a server has answered a request and is about to answer a datagram of another
\* source than the client's
C14_Witness ==
    \E s \in Servers :
       /\ srv_pc[s] = "send"
       /\ srv_last[s].kind = "Request"
       /\ srv_last[s].sends = 1
       /\ ~srv_last[s].failed
       /\ srv_seen.some
       /\ srv_cur[s].src_addr # srv_seen.val

\* C15: a send_to that fails ends the iteration like one that succeeds, but
\* for the datagram: the server is receiving again, has called send_to once
\* for the datagram and keeps nothing of the reply; the datagram it takes next
\* it dispatches as a server that knows nothing but that datagram does.
C15_SendFailureIsLocal ==
    /\ [][\A s \in Servers :
            (srv_pc[s] = "send" /\ srv_pc'[s] # "send") =>
               /\ srv_pc'[s] = "recv"
               /\ srv_cur'[s] = None
               /\ srv_cur[s].sends = 0
               /\ srv_last'[s].sends = 1
               /\ srv_last'[s].kind = KindOf(srv_cur[s].buf)
               /\ srv_last'[s].failed => net' = net]_vars
    /\ [][\A s \in Servers : \A d \in net :
            (Receives(s, d) /\ srv_last[s].failed) => DispatchedAlone(s, d)]_vars
    /\ [](\A s \in Servers :
            srv_last[s].failed => (srv_last[s].sends = 1 /\ srv_last[s].kind # "none"))

\* a server whose last send_to failed is about to answer the next datagram
C15_Witness ==
    \E s \in Servers :
       /\ srv_pc[s] = "send"
       /\ srv_last[s].failed
       /\ srv_cur[s].message.message_class = "SuccessResponse"

(***************************************************************************)
(* Properties of the transaction identifier.                               *)
(***************************************************************************)
\* the same bytes with another transaction id in the header
WithTid(buf, tid) == [buf EXCEPT !.wire.tid = tid]

\* C16: the reply to a SuccessResponse or an ErrorResponse carries the
\* transaction id of the newly constructed message, whatever the inbound one
\* is: the same bytes with any other transaction id get the same reply.  The
\* reply to a Request carries the transaction id of the Request.
C16_RejectDoesNotCopyTid ==
    /\ \A d \in ToServers :
          LET buf == RecvInto(d.payload, SERVER_BUF_LEN)
              kind == KindOf(buf)
          IN  kind \in {"Request", "SuccessResponse", "ErrorResponse"} =>
                 \A fresh \in Tids, tid \in Tids :
                    LET response == parse_message(WithTid(buf, tid), d.src, fresh)
                    IN  /\ response.some
                        /\ kind = "Request" => response.val.transaction_id = tid
                        /\ kind # "Request" =>
                              /\ response.val.transaction_id = fresh
                              /\ IsReject(response.val)
    /\ \A s \in Servers :
          (srv_pc[s] = "send" /\ KindOf(srv_cur[s].buf) = "Request") =>
             srv_cur[s].message.transaction_id
               = decode(srv_cur[s].buf).val.transaction_id

\* a server is about to reject a SuccessResponse with a reply whose transaction
\* id is not the inbound one
C16_Witness ==
    \E s \in Servers :
       /\ srv_pc[s] = "send"
       /\ KindOf(srv_cur[s].buf) = "SuccessResponse"
       /\ srv_cur[s].message.transaction_id
            # decode(srv_cur[s].buf).val.transaction_id

\* C17: the client returns Ok only for a reply that answers its request: a
\* Binding SuccessResponse whose transaction id is that of the request sent.
C17_OkOnlyForOwnReply ==
    (cli_pc = "print" /\ ReturnedOk) =>
       LET stun_response == decode(RecvInto(cli_reply.val.payload, MAX_STUN_MSG_SIZE))
       IN  /\ stun_response.val.transaction_id = cli_req.val.transaction_id
           /\ stun_response.val.message_class = "SuccessResponse"

\* The same for the replies a server sends to a request the client has sent:
\* this fails too, since a server answers anyone who writes the client's
\* address on a request.
C17_OkOnlyForOwnReplyOfServer ==
    (cli_pc = "print" /\ ReturnedOk /\ cli_reply.val.from \in Servers) =>
       decode(Exact(cli_reply.val.payload)).val.transaction_id
         = cli_req.val.transaction_id

\* What the client does check: the reply decodes and holds an XorMappedAddress.
C17_OkForAnyMappedAddress ==
    (cli_pc = "print" /\ cli_reply.some) =>
       LET stun_response == decode(RecvInto(cli_reply.val.payload, MAX_STUN_MSG_SIZE))
       IN  ReturnedOk <=> (stun_response.ok /\ XorIndexes(stun_response.val) # {})

(***************************************************************************)
(* Properties of the order of the client's steps.                          *)
(***************************************************************************)
\* the steps of main and get_mapped_addr that may follow one another
ClientOrder ==
    {<<"bind", "build">>, <<"bind", "panicked">>, <<"build", "connect">>,
     <<"connect", "send">>, <<"connect", "print">>,
     <<"send", "recv">>, <<"send", "print">>,
     <<"recv", "print">>, <<"print", "done">>}

\* the datagrams of the client in flight
OfClient == {d \in net : d.from = "client"}

\* C18: the client builds its request, connects, sends, receives and decodes,
\* in this order; it calls recv only after its datagram was sent; a step that
\* fails is the last one: after a failed connect nothing was sent, after a
\* failed send nothing was received, after a failed recv nothing was decoded.
C18_StepsInOrder ==
    /\ [](/\ cli_recvs <= cli_sends
          /\ cli_pc \in {"connect", "send", "recv"} => (cli_req.some /\ ~Returned)
          /\ cli_pc \in {"bind", "build", "connect", "send"} =>
                (cli_sends = 0 /\ cli_recvs = 0 /\ OfClient = {})
          /\ cli_reply.some => (cli_sends = 1 /\ cli_recvs = 1)
          /\ Returned =>
                /\ cli_pc \in {"print", "done"}
                /\ cli_result.val = TransportFailed("connect") =>
                      (cli_sends = 0 /\ cli_recvs = 0 /\ OfClient = {} /\ ~cli_reply.some)
                /\ cli_result.val = TransportFailed("send") =>
                      (cli_sends = 0 /\ cli_recvs = 0 /\ OfClient = {} /\ ~cli_reply.some)
                /\ cli_result.val = TransportFailed("recv") =>
                      (cli_sends = 1 /\ cli_recvs = 1 /\ ~cli_reply.some)
                /\ cli_result.val \notin {TransportFailed(op) :
                                             op \in {"connect", "send", "recv"}} =>
                      (cli_sends = 1 /\ cli_recvs = 1))
    /\ [][/\ cli_pc' # cli_pc => <<cli_pc, cli_pc'>> \in ClientOrder
          /\ cli_sends' # cli_sends => (cli_pc = "send" /\ cli_pc' = "recv")
          /\ cli_recvs' # cli_recvs => (cli_pc = "recv" /\ cli_pc' = "print")
          /\ cli_result' # cli_result => cli_pc' = "print"]_vars

\* send has failed and the exchange has ended, though a datagram for the client
\* is waiting
C18_Witness ==
    /\ cli_pc = "print"
    /\ cli_result.val = TransportFailed("send")
    /\ ToClient # {}

(***************************************************************************)
(* Properties of chains of replies.                                        *)
(***************************************************************************)
\* C19: the replies that one datagram sets off come to an end: from some point
\* on no server is about to send a reply any more (the peers send MaxInject
\* datagrams and the client one, so replies without end are those of a chain).
C19_ChainOfRepliesEnds == <>[](\A s \in Servers : srv_pc[s] # "send")

\* What keeps the chain going: a server answers every reply of a server that
\* is delivered to it, and its answer is again such a reply.
C19_ServerAnswersServer ==
    /\ [][\A s \in Servers : \A d \in net :
            (Receives(s, d) /\ d.from \in Servers) =>
               (srv_pc'[s] = "send" /\ IsReject(srv_cur'[s].message))]_vars
    /\ [](\A d \in net :
            d.from \in Servers =>
               KindOf(Exact(d.payload)) \in {"SuccessResponse", "ErrorResponse"})

\* a server is about to answer its own reject reply
C19_AnswersOwnReply ==
    \E s \in Servers :
       /\ srv_pc[s] = "send"
       /\ srv_cur[s].src_addr = SrvAddr(s)
       /\ srv_last[s].kind = "ErrorResponse"
       /\ KindOf(srv_cur[s].buf) = "ErrorResponse"

====
